---------------------------- MODULE Spec2Model ----------------------------
(***************************************************************************)
(* Worker/job matching (matching_logic.py, api.py).                        *)
(*                                                                         *)
(* State: the two module-level record lists (trabalhadores, vagas) and the *)
(* module-level cache written by inicializar_matcher (the fitted           *)
(* vectorizer, the TF-IDF matrix, the two document lists and the cosine    *)
(* similarity matrix).  Operations: inicializar_matcher (run at import, at *)
(* the API startup event and, lazily, inside the matching function),       *)
(* encontrar_matches_para_trabalhador, and the HTTP handler that wraps it. *)
(*                                                                         *)
(* Abstractions.                                                           *)
(*  - A text field is represented by the set of tokens the vectorizer      *)
(*    extracts from it; term frequencies are not represented.              *)
(*  - A similarity score is an integer in units of 10^-5 (100000 = 1.0).       *)
(*    TfidfVectorizer/cosine_similarity are library code: the model keeps  *)
(*    what they guarantee (score 0 exactly when two documents share no     *)
(*    token, a positive score otherwise, ValueError on an empty            *)
(*    vocabulary) and lets the positive value range over Positivas.        *)
(*  - The record lists are module globals that the data source may change  *)
(*    (the matching function guards against exactly that); the model lets  *)
(*    the data source append the next record or drop the last one.         *)
(***************************************************************************)
EXTENDS Integers, Sequences, FiniteSets

VARIABLES trabalhadores, vagas, vectorizer, matriz_similaridade_global,
          tfidf_matrix_global, docs_trabalhadores_global, docs_vagas_global,
          evento, anterior

vars == <<trabalhadores, vagas, vectorizer, matriz_similaridade_global,
          tfidf_matrix_global, docs_trabalhadores_global, docs_vagas_global,
          evento, anterior>>

(***************************************************************************)
(* Bounds.                                                                 *)
(***************************************************************************)
MaxTrabalhadores == 2
MaxVagas == 3
MaxTopN == 2

Min(a, b) == IF a <= b THEN a ELSE b

(***************************************************************************)
(* Scores.                                                                 *)
(***************************************************************************)
\* Stands for float('nan'), which the filter tests for.  cosine_similarity
\* of TF-IDF vectors is finite, so no matrix of the model holds it.
NaN == -999999
\* Positive scores a pair of documents sharing a token can get: one below
\* 0.00005 and a larger one.
Positivas == {4, 60000}

\* None / a value, for the globals that start as None.
None == [presente |-> FALSE, valor |-> <<>>]
Some(v) == [presente |-> TRUE, valor |-> v]
\* The unfitted vectorizer has no vocabulary_.
NaoAjustado == [presente |-> FALSE, valor |-> {}]

(***************************************************************************)
(* Data source: the records the lists are drawn from.                      *)
(***************************************************************************)
IdsTrabalhadores == <<"t1", "t2", "t3", "t4">>
IdsVagas == <<"v1", "v2", "v3", "v4">>
IdInexistente == "t9"

\* Record i of the worker source.  Record 1 has text without any token.
TrabalhadorFonte(i) ==
    [id |-> IdsTrabalhadores[i],
     habilidades |-> <<{}, {"python"}, {"sql"}, {"python", "django"}>>[i],
     experiencia |-> <<{}, {"javascript"}, {}, {"sql"}>>[i]]

\* Record j of the job source.  Record 1 has text without any token.
VagaFonte(j) ==
    [id |-> IdsVagas[j],
     titulo |-> <<"Cientista de Dados Pleno", "Desenvolvedor Frontend Junior",
                  "Engenheiro de DevOps Senior", "Desenvolvedor Python Backend">>[j],
     empresa |-> <<"InovaTech", "WebSolucoes", "CloudExperts", "CodeBuilders">>[j],
     requisitos_habilidades |-> <<{}, {"python"}, {"python"}, {"python"}>>[j],
     descricao |-> <<{}, {"sql"}, {}, {"docker"}>>[j]]

ListaTrabalhadores(n) == [i \in 1..n |-> TrabalhadorFonte(i)]
ListaVagas(n) == [j \in 1..n |-> VagaFonte(j)]

(***************************************************************************)
(* Document creation.                                                      *)
(***************************************************************************)
\* preprocessar_texto lower-cases and strips punctuation, which leaves the
\* tokens of a field unchanged; the document is the two normalised fields
\* joined by a space, so its tokens are those of both fields.
criar_documento(item, tipo) ==
    IF tipo = "trabalhador"
    THEN item.habilidades \cup item.experiencia
    ELSE IF tipo = "vaga"
    THEN item.requisitos_habilidades \cup item.descricao
    ELSE {}

(***************************************************************************)
(* Vectorisation and similarity.                                           *)
(***************************************************************************)
\* The cache as one value, for the operators below.
Cache == [vectorizer |-> vectorizer,
          matriz |-> matriz_similaridade_global,
          tfidf |-> tfidf_matrix_global,
          docs_trabalhadores |-> docs_trabalhadores_global,
          docs_vagas |-> docs_vagas_global]

\* The module-level assignments before the first initialisation.
CacheInicial == [vectorizer |-> NaoAjustado,
                 matriz |-> None,
                 tfidf |-> None,
                 docs_trabalhadores |-> <<>>,
                 docs_vagas |-> <<>>]

Vocabulario(docs) == UNION {docs[i] : i \in DOMAIN docs}

\* The scores cosine_similarity can give two TF-IDF vectors: 0 when the
\* documents share no token, a positive score when they share one.
CossenoPossivel(doc_t, doc_v) ==
    IF doc_t \cap doc_v = {} THEN {0} ELSE Positivas

\* The rows cosine_similarity can give worker document doc_t against the
\* first n job documents.
RECURSIVE LinhasPossiveis(_, _, _)
LinhasPossiveis(doc_t, docs_v, n) ==
    IF n = 0 THEN {<<>>}
    ELSE {Append(l, s) : l \in LinhasPossiveis(doc_t, docs_v, n - 1),
                         s \in CossenoPossivel(doc_t, docs_v[n])}

\* The matrices it can give the first n worker documents.
RECURSIVE MatrizesPossiveis(_, _, _)
MatrizesPossiveis(docs_t, docs_v, n) ==
    IF n = 0 THEN {<<>>}
    ELSE {Append(m, l) : m \in MatrizesPossiveis(docs_t, docs_v, n - 1),
                         l \in LinhasPossiveis(docs_t[n], docs_v, Len(docs_v))}

\* cosine_similarity(tfidf_trabalhadores, tfidf_vagas): one row per worker
\* document, one column per job document.
cosine_similarity(docs_t, docs_v) == MatrizesPossiveis(docs_t, docs_v, Len(docs_t))

\* `if not docs_trabalhadores_global or not docs_vagas_global`
ListasVazias(docs_t, docs_v) == docs_t = <<>> \/ docs_v = <<>>

\* inicializar_matcher: the caches it can leave, from cache c and the
\* current lists.
inicializar_matcher(c, trab, vag) ==
    LET docs_t == [i \in 1..Len(trab) |-> criar_documento(trab[i], "trabalhador")]
        docs_v == [j \in 1..Len(vag) |-> criar_documento(vag[j], "vaga")]
        c1 == [c EXCEPT !.docs_trabalhadores = docs_t, !.docs_vagas = docs_v]
        todos_docs == docs_t \o docs_v
    IN  IF ListasVazias(docs_t, docs_v)
        THEN {c1}                                   \* early return
        ELSE IF Vocabulario(todos_docs) = {}
        THEN {[c1 EXCEPT !.matriz = None]}           \* ValueError caught
        ELSE {[c1 EXCEPT !.vectorizer = Some(Vocabulario(todos_docs)),
                         !.tfidf = Some(todos_docs),
                         !.matriz = Some(m)] : m \in cosine_similarity(docs_t, docs_v)}

(***************************************************************************)
(* The matching function.  Positions are 0-based, as in the source.        *)
(***************************************************************************)
\* What the function returns: a list of entries, one of the three
\* {"erro": ...} values, or (tipo "excecao") an exception leaving it.
Lista(itens) == [tipo |-> "lista", itens |-> itens]
ErroInicializacao == [tipo |-> "erro_inicializacao", itens |-> <<>>]
ErroNaoEncontrado == [tipo |-> "erro_nao_encontrado", itens |-> <<>>]
ErroIndice == [tipo |-> "erro_indice", itens |-> <<>>]
Excecao == [tipo |-> "excecao", itens |-> <<>>]

\* Faulty variant: the matrix is rebuilt on every call.
SempreAusente(m) == TRUE

\* `matriz_similaridade_global is None or not isinstance(..., np.ndarray)`,
\* the test before the re-initialisation.
MatrizAusente(m) == ~m.presente

\* Faulty variant: the result of the re-initialisation is not checked.
SemSegundaVerificacao(m) == FALSE

\* The same test, repeated after the re-initialisation.
AusenteAposInit(m) == ~m.presente

\* Faulty variant: next(..., 0), position 0 for an id that is in no record.
IndiceTrabalhadorPadrao(trab, id_trabalhador) ==
    IF \E i \in 1..Len(trab) : trab[i].id = id_trabalhador
    THEN (CHOOSE i \in 1..Len(trab) :
              /\ trab[i].id = id_trabalhador
              /\ \A k \in 1..(i - 1) : trab[k].id # id_trabalhador) - 1
    ELSE 0

\* `next(i for i, t in enumerate(trabalhadores) if t['id'] == id)`:
\* the first position holding the id, -1 for StopIteration.
IndiceTrabalhador(trab, id_trabalhador) ==
    IF \E i \in 1..Len(trab) : trab[i].id = id_trabalhador
    THEN (CHOOSE i \in 1..Len(trab) :
              /\ trab[i].id = id_trabalhador
              /\ \A k \in 1..(i - 1) : trab[k].id # id_trabalhador) - 1
    ELSE -1

\* Faulty variant: `>` for `>=`.
ForaDosLimitesEstrito(indice_trabalhador, m) == indice_trabalhador > Len(m)

\* `indice_trabalhador >= matriz_similaridade_global.shape[0]`
IndiceForaDosLimites(indice_trabalhador, m) == indice_trabalhador >= Len(m)

\* sorted(enumerate(row), key=lambda item: item[1], reverse=True) is
\* stable: a pair goes after every pair already placed whose score is >=
\* its own.
RECURSIVE InserirOrdenado(_, _)
InserirOrdenado(s, par) ==
    IF s = <<>> THEN <<par>>
    ELSE IF Head(s)[2] >= par[2]
         THEN <<Head(s)>> \o InserirOrdenado(Tail(s), par)
         ELSE <<par>> \o s

RECURSIVE OrdenarPrefixo(_, _)
OrdenarPrefixo(similaridades_vagas, n) ==
    IF n = 0 THEN <<>>
    ELSE InserirOrdenado(OrdenarPrefixo(similaridades_vagas, n - 1),
                         <<n - 1, similaridades_vagas[n]>>)

\* Faulty variant: sorted(...)[::-1], an ascending sort reversed, which puts pairs
\* with equal scores in reverse order.
RECURSIVE InserirAntes(_, _)
InserirAntes(s, par) ==
    IF s = <<>> THEN <<par>>
    ELSE IF Head(s)[2] > par[2]
         THEN <<Head(s)>> \o InserirAntes(Tail(s), par)
         ELSE <<par>> \o s

RECURSIVE OrdenarInvertidoPrefixo(_, _)
OrdenarInvertidoPrefixo(similaridades_vagas, n) ==
    IF n = 0 THEN <<>>
    ELSE InserirAntes(OrdenarInvertidoPrefixo(similaridades_vagas, n - 1),
                      <<n - 1, similaridades_vagas[n]>>)

OrdenarInvertido(similaridades_vagas) ==
    OrdenarInvertidoPrefixo(similaridades_vagas, Len(similaridades_vagas))

\* matches_ordenados: the pairs (indice_vaga, similaridade) of the row.
Ordenar(similaridades_vagas) ==
    OrdenarPrefixo(similaridades_vagas, Len(similaridades_vagas))

\* Faulty variant: one pair too many.
FatiarMais(matches_ordenados, top_n) ==
    SubSeq(matches_ordenados, 1, Min(top_n + 1, Len(matches_ordenados)))

\* matches_ordenados[:top_n], for top_n >= 0.
Fatiar(matches_ordenados, top_n) ==
    SubSeq(matches_ordenados, 1, Min(top_n, Len(matches_ordenados)))

\* Faulty variant: `<` for `<=`.
DescartarNegativas(similaridade) == similaridade = NaN \/ similaridade < 0

\* `np.isnan(similaridade) or similaridade <= 0`
Descartar(similaridade) == similaridade = NaN \/ similaridade <= 0

\* `indice_vaga < len(vagas)`
VagaExiste(indice_vaga, vag) == indice_vaga < Len(vag)

\* round(float(similaridade), 4): the nearest multiple of 10^-4, a tie
\* going to the even one.
Arredondar4(similaridade) ==
    LET q == similaridade \div 10
        r == similaridade % 10
    IN  IF r < 5 THEN q * 10
        ELSE IF r > 5 THEN (q + 1) * 10
        ELSE IF q % 2 = 0 THEN q * 10 ELSE (q + 1) * 10

\* The entry appended for a retained pair.
Entrada(vaga, similaridade) ==
    [id_vaga |-> vaga.id,
     titulo_vaga |-> vaga.titulo,
     empresa |-> vaga.empresa,
     similaridade |-> Arredondar4(similaridade)]

\* The for loop over the sliced pairs; acc is resultado_matches (a result
\* value, so that an IndexError on vagas[indice_vaga] ends the call).
RECURSIVE Montar(_, _, _)
Montar(pares, vag, acc) ==
    IF pares = <<>> \/ acc.tipo = "excecao" THEN acc
    ELSE LET indice_vaga == Head(pares)[1]
             similaridade == Head(pares)[2]
         IN  IF Descartar(similaridade)
             THEN Montar(Tail(pares), vag, acc)
             ELSE IF VagaExiste(indice_vaga, vag)
             THEN IF indice_vaga + 1 \in DOMAIN vag
                  THEN Montar(Tail(pares), vag,
                              Lista(Append(acc.itens,
                                           Entrada(vag[indice_vaga + 1],
                                                   similaridade))))
                  ELSE Excecao
             ELSE Montar(Tail(pares), vag, acc)

\* Lines 142-178: lookup, bounds check, sort, slice, filter, emit.
Consultar(matriz, trab, vag, id_trabalhador, top_n) ==
    LET indice_trabalhador == IndiceTrabalhador(trab, id_trabalhador)
        m == matriz.valor
    IN  IF indice_trabalhador = -1 THEN ErroNaoEncontrado
        ELSE IF ~matriz.presente THEN Excecao       \* None has no shape
        ELSE IF IndiceForaDosLimites(indice_trabalhador, m) THEN ErroIndice
        ELSE IF indice_trabalhador + 1 \notin DOMAIN m THEN Excecao
        ELSE Montar(Fatiar(Ordenar(m[indice_trabalhador + 1]), top_n), vag, Lista(<<>>))

\* encontrar_matches_para_trabalhador: the outcomes of one call, each the
\* cache it leaves, the number of initialisations it ran and its result.
encontrar_matches_para_trabalhador(c, trab, vag, id_trabalhador, top_n) ==
    LET ausente == MatrizAusente(c.matriz)
        depois == IF ausente THEN inicializar_matcher(c, trab, vag) ELSE {c}
    IN  {[cache |-> c2,
          inits |-> IF ausente THEN 1 ELSE 0,
          res |-> IF ausente /\ AusenteAposInit(c2.matriz)
                  THEN ErroInicializacao
                  ELSE Consultar(c2.matriz, trab, vag, id_trabalhador, top_n)]
         : c2 \in depois}

(***************************************************************************)
(* The state machine.                                                      *)
(***************************************************************************)
\* evento records the last operation: which one, its arguments, whether
\* the matrix was present when it started, how many times it ran
\* inicializar_matcher, what the matching function returned and the HTTP
\* status of the handler (0 outside the handler).
Evento(op, id_trabalhador, top_n, havia_matriz, inits, res, status) ==
    [op |-> op, id_trabalhador |-> id_trabalhador, top_n |-> top_n,
     havia_matriz |-> havia_matriz, inits |-> inits, res |-> res,
     status |-> status]

\* anterior keeps one call made on the present cache: its arguments and
\* result, whether it is the last call itself (desta_chamada) and whether a
\* call with other arguments came after it (intercalada).
SemAnterior ==
    [valido |-> FALSE, id_trabalhador |-> "", top_n |-> 0, res |-> Lista(<<>>),
     desta_chamada |-> FALSE, intercalada |-> FALSE]
Chamada(id_trabalhador, top_n, res) ==
    [valido |-> TRUE, id_trabalhador |-> id_trabalhador, top_n |-> top_n, res |-> res,
     desta_chamada |-> TRUE, intercalada |-> FALSE]
\* anterior, kept across a later call with the given arguments.
Mantida(id_trabalhador, top_n) ==
    [anterior EXCEPT !.desta_chamada = FALSE,
                     !.intercalada = @ \/ (anterior.valido
                                           /\ <<anterior.id_trabalhador, anterior.top_n>>
                                              # <<id_trabalhador, top_n>>)]

IdsConsulta == {IdsTrabalhadores[i] : i \in 1..MaxTrabalhadores} \cup {IdInexistente}
TopNs == 1..MaxTopN

GravarCache(c) ==
    /\ vectorizer' = c.vectorizer
    /\ matriz_similaridade_global' = c.matriz
    /\ tfidf_matrix_global' = c.tfidf
    /\ docs_trabalhadores_global' = c.docs_trabalhadores
    /\ docs_vagas_global' = c.docs_vagas

CacheInalterado ==
    UNCHANGED <<vectorizer, matriz_similaridade_global, tfidf_matrix_global,
                docs_trabalhadores_global, docs_vagas_global>>

\* Import of matching_logic: the lists as the data source gives them, the
\* module-level defaults, then the inicializar_matcher() of the last line.
Init ==
    /\ trabalhadores \in {ListaTrabalhadores(n) : n \in 0..MaxTrabalhadores}
    /\ vagas \in {ListaVagas(n) : n \in 0..MaxVagas}
    /\ \E c \in inicializar_matcher(CacheInicial, trabalhadores, vagas) :
          /\ vectorizer = c.vectorizer
          /\ matriz_similaridade_global = c.matriz
          /\ tfidf_matrix_global = c.tfidf
          /\ docs_trabalhadores_global = c.docs_trabalhadores
          /\ docs_vagas_global = c.docs_vagas
    /\ evento = Evento("import", "", 0, FALSE, 1, Lista(<<>>), 0)
    /\ anterior = SemAnterior

\* startup_event: inicializar_matcher() once more.
StartupEvent ==
    /\ \E c \in inicializar_matcher(Cache, trabalhadores, vagas) : GravarCache(c)
    /\ evento' = Evento("startup", "", 0, matriz_similaridade_global.presente,
                        1, Lista(<<>>), 0)
    /\ anterior' = SemAnterior
    /\ UNCHANGED <<trabalhadores, vagas>>

\* The effect of a direct call with outcome r.
Chamar(id_trabalhador, top_n, r) ==
    /\ GravarCache(r.cache)
    /\ evento' = Evento("match", id_trabalhador, top_n,
                        matriz_similaridade_global.presente, r.inits, r.res, 0)
    /\ UNCHANGED <<trabalhadores, vagas>>

\* A direct call of encontrar_matches_para_trabalhador.
EncontrarMatches ==
    \E id_trabalhador \in IdsConsulta, top_n \in TopNs :
      \E r \in encontrar_matches_para_trabalhador(Cache, trabalhadores, vagas,
                                                  id_trabalhador, top_n) :
        /\ Chamar(id_trabalhador, top_n, r)
        /\ anterior' = SemAnterior

\* The same call, with anterior keeping this call or the one it held.
EncontrarMatchesRepetido ==
    \E id_trabalhador \in IdsConsulta, top_n \in TopNs :
      \E r \in encontrar_matches_para_trabalhador(Cache, trabalhadores, vagas,
                                                  id_trabalhador, top_n) :
        /\ Chamar(id_trabalhador, top_n, r)
        /\ anterior' \in IF r.inits > 0 \/ ~r.cache.matriz.presente
                         THEN {SemAnterior}
                         ELSE {Mantida(id_trabalhador, top_n),
                               Chamada(id_trabalhador, top_n, r.res)}

\* get_matches_para_trabalhador: 404 for an id not in the list, before any
\* call; otherwise the call, an error value or an exception giving 500.
GetMatches ==
    \E id_trabalhador \in IdsConsulta, top_n \in TopNs :
      IF ~\E i \in 1..Len(trabalhadores) : trabalhadores[i].id = id_trabalhador
      THEN /\ evento' = Evento("http", id_trabalhador, top_n,
                               matriz_similaridade_global.presente, 0, Lista(<<>>), 404)
           /\ CacheInalterado
           /\ UNCHANGED <<trabalhadores, vagas, anterior>>
      ELSE \E r \in encontrar_matches_para_trabalhador(Cache, trabalhadores, vagas,
                                                       id_trabalhador, top_n) :
             /\ GravarCache(r.cache)
             /\ evento' = Evento("http", id_trabalhador, top_n,
                                 matriz_similaridade_global.presente, r.inits, r.res,
                                 IF r.res.tipo = "lista" THEN 200 ELSE 500)
             /\ anterior' = IF r.inits > 0 THEN SemAnterior ELSE anterior
             /\ UNCHANGED <<trabalhadores, vagas>>

EventoDados == Evento("dados", "", 0, matriz_similaridade_global.presente,
                      0, Lista(<<>>), 0)

\* The data source appends the next worker record.
AdicionarTrabalhador ==
    /\ Len(trabalhadores) < MaxTrabalhadores
    /\ trabalhadores' = Append(trabalhadores, TrabalhadorFonte(Len(trabalhadores) + 1))
    /\ evento' = EventoDados
    /\ anterior' = SemAnterior
    /\ CacheInalterado
    /\ UNCHANGED vagas

\* The data source drops the last worker record.
RemoverTrabalhador ==
    /\ trabalhadores # <<>>
    /\ trabalhadores' = SubSeq(trabalhadores, 1, Len(trabalhadores) - 1)
    /\ evento' = EventoDados
    /\ anterior' = SemAnterior
    /\ CacheInalterado
    /\ UNCHANGED vagas

\* The data source appends the next job record.
AdicionarVaga ==
    /\ Len(vagas) < MaxVagas
    /\ vagas' = Append(vagas, VagaFonte(Len(vagas) + 1))
    /\ evento' = EventoDados
    /\ anterior' = SemAnterior
    /\ CacheInalterado
    /\ UNCHANGED trabalhadores

\* The data source drops the last job record.
RemoverVaga ==
    /\ vagas # <<>>
    /\ vagas' = SubSeq(vagas, 1, Len(vagas) - 1)
    /\ evento' = EventoDados
    /\ anterior' = SemAnterior
    /\ CacheInalterado
    /\ UNCHANGED trabalhadores

Next ==
    \/ StartupEvent
    \/ EncontrarMatches
    \/ GetMatches
    \/ AdicionarTrabalhador
    \/ RemoverTrabalhador
    \/ AdicionarVaga
    \/ RemoverVaga

Spec == Init /\ [][Next]_vars

\* The system on a corpus that does not change: calls and re-initialisation.
NextFixo ==
    \/ StartupEvent
    \/ EncontrarMatchesRepetido

SpecFixo == Init /\ [][NextFixo]_vars

(***************************************************************************)
(* Properties.  They read the last call from evento and the lists and      *)
(* cache the call left (a call changes neither list, and any               *)
(* re-initialisation it runs precedes its lookup).                         *)
(***************************************************************************)
\* The last operation called the matching function.
Chamou == evento.op = "match" \/ (evento.op = "http" /\ evento.status # 404)

RetornouLista == Chamou /\ evento.res.tipo = "lista"

IdPresente == \E i \in 1..Len(trabalhadores) : trabalhadores[i].id = evento.id_trabalhador

\* 1-based position of the called worker; ids are unique in the lists.
PosTrabalhador == CHOOSE i \in 1..Len(trabalhadores) :
                      trabalhadores[i].id = evento.id_trabalhador

MatrizAtual == matriz_similaridade_global.valor

\* The called worker has a row in the matrix.
TemLinha == /\ IdPresente
            /\ matriz_similaridade_global.presente
            /\ PosTrabalhador <= Len(MatrizAtual)

LinhaAtual == MatrizAtual[PosTrabalhador]

\* 1-based position of the job an entry names.
PosVaga(entrada) == CHOOSE j \in 1..Len(vagas) : vagas[j].id = entrada.id_vaga

\* Columns of the row with a valid score > 0.
ColunasPositivas == {j \in 1..Len(LinhaAtual) : LinhaAtual[j] # NaN /\ LinhaAtual[j] > 0}

\* C1: a returned sequence has at most top_n entries.
C1_TopNBound == RetornouLista => Len(evento.res.itens) <= evento.top_n

\* C1 witness: a row with more positive scores than top_n, cut to top_n.
C1_Witness ==
    /\ RetornouLista /\ TemLinha
    /\ Cardinality(ColunasPositivas) > evento.top_n
    /\ Len(evento.res.itens) = evento.top_n

\* C2: the entries are in descending order of the row scores of their jobs,
\* and entries with equal row scores are in job-position order.
C2_DescendingStable ==
    (RetornouLista /\ TemLinha) =>
        \A i, k \in 1..Len(evento.res.itens) :
            i < k =>
                LET a == PosVaga(evento.res.itens[i])
                    b == PosVaga(evento.res.itens[k])
                IN  /\ LinhaAtual[a] >= LinhaAtual[b]
                    /\ (LinhaAtual[a] = LinhaAtual[b] => a < b)

\* C2 witness: two entries with equal row scores were returned.
C2_Witness ==
    /\ RetornouLista /\ TemLinha
    /\ Len(evento.res.itens) >= 2
    /\ LinhaAtual[PosVaga(evento.res.itens[1])] = LinhaAtual[PosVaga(evento.res.itens[2])]

\* C3 (as claimed): every emitted similarity, the rounded value, is > 0.
C3_EmittedPositive ==
    RetornouLista =>
        \A i \in 1..Len(evento.res.itens) : evento.res.itens[i].similaridade > 0

\* C4 (as claimed): a call with an id that is in no record returns the
\* not-found value, whatever the cache was.
C4_NotFoundAlways ==
    (evento.op = "match" /\ ~IdPresente) => evento.res = ErroNaoEncontrado

\* C4 (amended): a call with an id that is in no record returns the
\* not-found value when the matrix is available to the call, the
\* initialisation-failure value when the call's re-initialisation leaves it
\* absent, and never raises.
C4_NotFoundWhenInitialized ==
    (evento.op = "match" /\ ~IdPresente) =>
        /\ evento.res.tipo # "excecao"
        /\ (matriz_similaridade_global.presente => evento.res = ErroNaoEncontrado)
        /\ (~matriz_similaridade_global.presente => evento.res = ErroInicializacao)

\* C4 witness: the matrix was absent, the call rebuilt it and reported the
\* unknown id.
C4_Witness ==
    /\ evento.op = "match" /\ ~IdPresente
    /\ ~evento.havia_matriz
    /\ matriz_similaridade_global.presente
    /\ evento.res = ErroNaoEncontrado

\* C5: a call that starts without a matrix runs the initialisation exactly
\* once, returns the initialisation-failure value if the matrix is still
\* absent and otherwise the result of lookup and ranking on the new matrix;
\* a call that starts with a matrix runs no initialisation.
C5_OneRetry ==
    Chamou =>
        /\ evento.res.tipo # "excecao"
        /\ (evento.havia_matriz => evento.inits = 0)
        /\ (~evento.havia_matriz =>
               /\ evento.inits = 1
               /\ (~matriz_similaridade_global.presente =>
                      evento.res = ErroInicializacao)
               /\ (matriz_similaridade_global.presente =>
                      evento.res = Consultar(matriz_similaridade_global, trabalhadores,
                                             vagas, evento.id_trabalhador, evento.top_n)))

\* C5 witness: a call that found no matrix, built one and returned matches.
C5_Witness ==
    /\ Chamou /\ ~evento.havia_matriz /\ evento.inits = 1
    /\ matriz_similaridade_global.presente
    /\ evento.res.tipo = "lista" /\ evento.res.itens # <<>>

\* C6, first part: a call that starts with a matrix changes no list and no
\* part of the cache, and fits nothing.
C6_Frame ==
    (evento'.op = "match" /\ matriz_similaridade_global.presente) =>
        /\ evento'.inits = 0
        /\ UNCHANGED <<trabalhadores, vagas, vectorizer, matriz_similaridade_global,
                       tfidf_matrix_global, docs_trabalhadores_global,
                       docs_vagas_global>>

\* C6, second part: a call returns what an earlier call with the same
\* arguments returned.
C6_SameResult ==
    (evento.op = "match" /\ evento.havia_matriz
        /\ anterior.valido /\ ~anterior.desta_chamada
        /\ anterior.id_trabalhador = evento.id_trabalhador
        /\ anterior.top_n = evento.top_n)
    => evento.res = anterior.res

\* C6: on a fixed corpus with a matrix present, calls leave lists and cache
\* unchanged, and calls with the same arguments return the same result,
\* whatever calls come between them.
C6_PureLookup == [][C6_Frame]_vars /\ []C6_SameResult

\* C6 witness: a call with a non-empty result, made after an earlier call
\* with the same arguments and a call with other arguments in between.
C6_Witness ==
    /\ evento.op = "match" /\ evento.havia_matriz
    /\ anterior.valido /\ ~anterior.desta_chamada /\ anterior.intercalada
    /\ anterior.id_trabalhador = evento.id_trabalhador
    /\ anterior.top_n = evento.top_n
    /\ evento.res.tipo = "lista" /\ evento.res.itens # <<>>

\* The reference procedure of C7 on a row: the columns ordered by
\* descending score (equal scores by column), those with a NaN or
\* non-positive score dropped, the first top_n of the rest.
ColunasOrdenadas(linha) ==
    CHOOSE p \in [1..Len(linha) -> 1..Len(linha)] :
        /\ \A i, k \in 1..Len(linha) : i # k => p[i] # p[k]
        /\ \A i, k \in 1..Len(linha) :
               i < k => \/ linha[p[i]] > linha[p[k]]
                        \/ (linha[p[i]] = linha[p[k]] /\ p[i] < p[k])

Validas(linha) ==
    LET Valida(j) == linha[j] # NaN /\ linha[j] > 0
    IN  SelectSeq(ColunasOrdenadas(linha), Valida)

Referencia(linha, top_n) ==
    SubSeq(Validas(linha), 1, Min(top_n, Len(Validas(linha))))

\* C7: for a worker with a row and a matrix with one column per job, the
\* call returns the reference procedure's jobs, in its order:
\* min(top_n, P) entries, P the number of positive scores of the row, and
\* the empty sequence when P = 0.
C7_MatchesReference ==
    (Chamou /\ TemLinha /\ Len(LinhaAtual) = Len(vagas)) =>
        LET ref == Referencia(LinhaAtual, evento.top_n)
        IN  /\ evento.res.tipo = "lista"
            /\ Len(evento.res.itens) = Min(evento.top_n, Cardinality(ColunasPositivas))
            /\ Len(evento.res.itens) = Len(ref)
            /\ \A i \in 1..Len(ref) :
                   /\ evento.res.itens[i].id_vaga = vagas[ref[i]].id
                   /\ evento.res.itens[i].similaridade = Arredondar4(LinhaAtual[ref[i]])

\* C7 witness: a row with a zero score and more positive scores than top_n.
C7_Witness ==
    /\ Chamou /\ TemLinha /\ Len(LinhaAtual) = Len(vagas)
    /\ Cardinality(ColunasPositivas) < Len(LinhaAtual)
    /\ Cardinality(ColunasPositivas) > evento.top_n
    /\ Len(evento.res.itens) = evento.top_n

\* The last operation ran inicializar_matcher and has returned.
Inicializou == evento.inits > 0

\* C8 (as claimed): when the initialisation has run with an empty worker
\* list or an empty job list, the similarity matrix is unset.
C8_EmptyListUnsetsMatrix ==
    (Inicializou /\ (trabalhadores = <<>> \/ vagas = <<>>)) =>
        ~matriz_similaridade_global.presente

DocsAtuaisTrabalhadores ==
    [i \in 1..Len(trabalhadores) |-> criar_documento(trabalhadores[i], "trabalhador")]
DocsAtuaisVagas ==
    [j \in 1..Len(vagas) |-> criar_documento(vagas[j], "vaga")]

\* C9 (as claimed): when the initialisation has run, the matrix is unset or
\* the cached documents, the fitted vectors and the matrix all come from the
\* current lists, with one row per worker and one column per job.
C9_AtomicRebuild ==
    Inicializou =>
        \/ ~matriz_similaridade_global.presente
        \/ /\ docs_trabalhadores_global = DocsAtuaisTrabalhadores
           /\ docs_vagas_global = DocsAtuaisVagas
           /\ tfidf_matrix_global = Some(DocsAtuaisTrabalhadores \o DocsAtuaisVagas)
           /\ vectorizer = Some(Vocabulario(DocsAtuaisTrabalhadores \o DocsAtuaisVagas))
           /\ Len(MatrizAtual) = Len(trabalhadores)
           /\ \A i \in 1..Len(MatrizAtual) : Len(MatrizAtual[i]) = Len(vagas)
           /\ MatrizAtual \in cosine_similarity(DocsAtuaisTrabalhadores, DocsAtuaisVagas)

\* C10: a call for a worker in the list that starts with a matrix, stale or
\* not, never raises; it returns the index-out-of-range value exactly when
\* the worker's position is not below the row count, and otherwise a
\* sequence whose entries all name jobs of the current job list.
C10_StaleGuards ==
    (Chamou /\ evento.havia_matriz /\ IdPresente) =>
        /\ evento.res.tipo # "excecao"
        /\ (evento.res = ErroIndice <=> PosTrabalhador - 1 >= Len(MatrizAtual))
        /\ (PosTrabalhador - 1 < Len(MatrizAtual) =>
               /\ evento.res.tipo = "lista"
               /\ \A i \in 1..Len(evento.res.itens) :
                      \E j \in 1..Len(vagas) : vagas[j].id = evento.res.itens[i].id_vaga)

\* C10 witness: the job list is shorter than the row, and a positive score
\* among the first top_n of the row belongs to a job no longer in the list.
C10_Witness ==
    /\ Chamou /\ evento.havia_matriz /\ TemLinha
    /\ Len(LinhaAtual) > Len(vagas)
    /\ evento.res.tipo = "lista"
    /\ Len(evento.res.itens) < Min(evento.top_n, Cardinality(ColunasPositivas))

=============================================================================
